---- MODULE Spec2Model ----
(***************************************************************************)
(* Dockerfile dependency resolution of pkg/skaffold/docker/parse.go.       *)
(*                                                                         *)
(* Strings are sequences of one-character strings, so that prefix tests,   *)
(* splitting, substitution and path cleaning are computed character by     *)
(* character as the Go code computes them.  A parser.Node is a record      *)
(* [cmd, toks, flags]: cmd is node.Value (the lower-cased instruction      *)
(* name), toks the node.Next chain, flags node.Flags.                      *)
(***************************************************************************)
EXTENDS Integers, Sequences, FiniteSets, TLC

(***************************************************************************)
(* Go's strings package                                                    *)
(***************************************************************************)

\* strings.HasPrefix
HasPrefix(s, p) ==
    /\ Len(p) <= Len(s)
    /\ \A i \in 1..Len(p) : s[i] = p[i]

\* s[from:] with a 1-based first index
Drop(s, n) == IF n >= Len(s) THEN <<>> ELSE SubSeq(s, n + 1, Len(s))

\* strings.Split with a one-character separator; Split("", sep) is [""]
RECURSIVE Split(_, _)
Split(s, sep) ==
    IF s = <<>> THEN << <<>> >>
    ELSE LET r == Split(Tail(s), sep)
         IN  IF Head(s) = sep
             THEN << <<>> >> \o r
             ELSE << <<Head(s)>> \o Head(r) >> \o Tail(r)

\* strings.Join with a one-character separator
RECURSIVE JoinSep(_, _)
JoinSep(parts, sep) ==
    IF parts = <<>> THEN <<>>
    ELSE IF Len(parts) = 1 THEN parts[1]
    ELSE parts[1] \o <<sep>> \o JoinSep(Tail(parts), sep)

\* the upper-case letters and their lower-case forms
LowerOf ==
    [c \in {"A","B","C","D","E","F","G","H","I","J","K","L","M",
            "N","O","P","Q","R","S","T","U","V","W","X","Y","Z"} |->
        CASE c = "A" -> "a" [] c = "B" -> "b" [] c = "C" -> "c" [] c = "D" -> "d"
          [] c = "E" -> "e" [] c = "F" -> "f" [] c = "G" -> "g" [] c = "H" -> "h"
          [] c = "I" -> "i" [] c = "J" -> "j" [] c = "K" -> "k" [] c = "L" -> "l"
          [] c = "M" -> "m" [] c = "N" -> "n" [] c = "O" -> "o" [] c = "P" -> "p"
          [] c = "Q" -> "q" [] c = "R" -> "r" [] c = "S" -> "s" [] c = "T" -> "t"
          [] c = "U" -> "u" [] c = "V" -> "v" [] c = "W" -> "w" [] c = "X" -> "x"
          [] c = "Y" -> "y" [] c = "Z" -> "z"]

\* strings.ToLower
ToLower(s) == [i \in 1..Len(s) |-> IF s[i] \in DOMAIN LowerOf THEN LowerOf[s[i]] ELSE s[i]]

\* strings.Replace(text, old, new, -1) for a non-empty old: leftmost,
\* non-overlapping occurrences
RECURSIVE ReplaceAll(_, _, _)
ReplaceAll(text, old, new) ==
    IF text = <<>> THEN <<>>
    ELSE IF HasPrefix(text, old)
         THEN new \o ReplaceAll(Drop(text, Len(old)), old, new)
         ELSE <<Head(text)>> \o ReplaceAll(Tail(text), old, new)

(***************************************************************************)
(* Go's path/filepath package on a slash-separated system                  *)
(***************************************************************************)

\* filepath.IsAbs
IsAbs(p) == HasPrefix(p, <<"/">>)

\* the element stack of filepath.Clean: "." and empty elements vanish, ".."
\* removes the element before it, is dropped at the root and kept otherwise
RECURSIVE CleanElems(_, _, _)
CleanElems(elems, rooted, acc) ==
    IF elems = <<>> THEN acc
    ELSE LET e == Head(elems)
             r == Tail(elems)
         IN  IF e = <<>> \/ e = <<".">> THEN CleanElems(r, rooted, acc)
             ELSE IF e = <<".", ".">>
                  THEN IF acc # <<>> /\ acc[Len(acc)] # <<".", ".">>
                       THEN CleanElems(r, rooted, SubSeq(acc, 1, Len(acc) - 1))
                       ELSE IF rooted THEN CleanElems(r, rooted, acc)
                            ELSE CleanElems(r, rooted, Append(acc, e))
                  ELSE CleanElems(r, rooted, Append(acc, e))

\* filepath.Clean
Clean(p) ==
    LET rooted == IsAbs(p)
        body   == JoinSep(CleanElems(Split(p, "/"), rooted, <<>>), "/")
    IN  IF rooted THEN <<"/">> \o body
        ELSE IF body = <<>> THEN <<".">> ELSE body

\* filepath.Join of two elements: empty elements are ignored, the rest is
\* joined by a slash and cleaned
Join(a, b) ==
    IF a = <<>> /\ b = <<>> THEN <<>>
    ELSE IF a = <<>> THEN Clean(b)
    ELSE IF b = <<>> THEN Clean(a)
    ELSE Clean(a \o <<"/">> \o b)

\* the elements of a cleaned path ("." has none)
Elems(p) == CleanElems(Split(p, "/"), IsAbs(p), <<>>)

\* the length of the longest common prefix of two element lists
RECURSIVE CommonLen(_, _)
CommonLen(a, b) ==
    IF a = <<>> \/ b = <<>> \/ Head(a) # Head(b) THEN 0
    ELSE 1 + CommonLen(Tail(a), Tail(b))

\* filepath.Rel(base, targ) when it succeeds: the common leading elements
\* are dropped, every remaining element of base becomes "..".  It fails
\* when only one of the two is rooted or base keeps a ".." element.
RelFails(base, targ) ==
    LET b == Elems(base)
        t == Elems(targ)
        n == CommonLen(b, t)
    IN  \/ IsAbs(base) # IsAbs(targ)
        \/ (n < Len(b) /\ b[n + 1] = <<".", ".">>)

Rel(base, targ) ==
    LET b  == Elems(base)
        t  == Elems(targ)
        n  == CommonLen(b, t)
        up == [i \in 1..(Len(b) - n) |-> <<".", ".">>]
        r  == JoinSep(up \o Drop(t, n), "/")
    IN  IF r = <<>> THEN <<".">> ELSE r


\* filepath.Dir: everything up to the last slash, cleaned
RECURSIVE LastSlash(_, _)
LastSlash(p, i) == IF i = 0 THEN 0 ELSE IF p[i] = "/" THEN i ELSE LastSlash(p, i - 1)

Dir(p) == Clean(SubSeq(p, 1, LastSlash(p, Len(p))))

\* filepath.Base of a cleaned path with at least one element
Base(p) == Drop(p, LastSlash(p, Len(p)))

\* hasMeta of filepath.Glob
hasMeta(p) == \E i \in 1..Len(p) : p[i] \in {"*", "?", "["}

\* three-valued "or" over the outcomes "yes", "no", "bad" of a match
Outcome(outs) == IF "yes" \in outs THEN "yes" ELSE IF "bad" \in outs THEN "bad" ELSE "no"

\* filepath.Match of one pattern element against one name: "*" is any run
\* of characters, "?" one character.  Of the character classes only the
\* malformed one is modelled: a "[" that no "]" closes is ErrBadPattern as
\* soon as the match reaches it with a character of the name left.
RECURSIVE Match(_, _)
Match(pat, name) ==
    IF pat = <<>> THEN (IF name = <<>> THEN "yes" ELSE "no")
    ELSE IF Head(pat) = "*"
         THEN Outcome({Match(Tail(pat), Drop(name, k)) : k \in 0..Len(name)})
    ELSE IF name = <<>> THEN "no"
    ELSE IF Head(pat) = "[" THEN "bad"
    ELSE IF Head(pat) = "?" \/ Head(pat) = Head(name) THEN Match(Tail(pat), Tail(name))
    ELSE "no"

(***************************************************************************)
(* The file system.  The process runs in /r; the build workspace is the    *)
(* directory /r/ws, laid out as TestDockerContext lays it out, with one    *)
(* nested directory added.                                                 *)
(***************************************************************************)
sR           == <<"r">>
sWs          == <<"w", "s">>
sDockerfile  == <<"D", "o", "c", "k", "e", "r", "f", "i", "l", "e">>
sDockerignore == <<".", "d", "o", "c", "k", "e", "r", "i", "g", "n", "o", "r", "e">>
sFiles       == <<"f", "i", "l", "e", "s">>
sIncluded    == <<"i", "n", "c", "l", "u", "d", "e", "d", ".", "t", "x", "t">>
sIgnored     == <<"i", "g", "n", "o", "r", "e", "d", ".", "t", "x", "t">>
sSub         == <<"s", "u", "b">>
sDeep        == <<"d", "e", "e", "p", ".", "t", "x", "t">>

\* the absolute path with the given elements
AbsOf(elems) == <<"/">> \o JoinSep(elems, "/")

Cwd == AbsOf(<<sR>>)
WsRoot == AbsOf(<<sR, sWs>>)
IgnoreFilePath == AbsOf(<<sR, sWs, sDockerignore>>)

FSDirs ==
    { <<"/">>, Cwd, WsRoot,
      AbsOf(<<sR, sWs, sFiles>>),
      AbsOf(<<sR, sWs, sFiles, sSub>>) }

\* the regular files that are always there; .dockerignore may be absent
FSFiles ==
    { AbsOf(<<sR, sWs, sDockerfile>>),
      AbsOf(<<sR, sWs, sIgnored>>),
      AbsOf(<<sR, sWs, sFiles, sIncluded>>),
      AbsOf(<<sR, sWs, sFiles, sIgnored>>),
      AbsOf(<<sR, sWs, sFiles, sSub, sDeep>>) }

\* filepath.Abs
Abs(p) == IF IsAbs(p) THEN Clean(p) ELSE Join(Cwd, p)


(***************************************************************************)
(* State.  The first four variables are the caller's arguments and the     *)
(* environment; the rest are the locals of GetDependencies and of the      *)
(* functions it calls, and the position in them.                           *)
(***************************************************************************)
VARIABLES
    workspace,          \* GetDependencies: workspace
    dockerfilePath,     \* GetDependencies: dockerfilePath
    buildArgs,          \* GetDependencies: buildArgs (name -> template)
    ignorePresent,      \* whether <workspace>/.dockerignore exists
    pc,                 \* the function (and loop) being executed
    err,                \* the error GetDependencies returns, "" while none
    absDockerfilePath,  \* GetDependencies: absDockerfilePath
    dockerfileLines,    \* readDockerfile: res.AST.Children, mutated in place
    idx,                \* index of the loop being executed
    stages,             \* onbuildInstructions: stages
    instructions,       \* onbuildInstructions: instructions (as parsed nodes)
    lookups,            \* the calls of RetrieveImage so far, in order: the FROM
                        \* instruction, the image asked for and the answer
    nodes,              \* copiedFiles: its argument
    envs,               \* copiedFiles: envs
    copied,             \* copiedFiles: copied
    expandedPaths,      \* expandPaths: expandedPaths
    excludes,           \* GetDependencies: excludes
    files,              \* GetDependencies: files
    dependencies        \* GetDependencies: the returned list

vars == <<workspace, dockerfilePath, buildArgs, ignorePresent, pc, err,
          absDockerfilePath, dockerfileLines, idx, stages, instructions,
          lookups, nodes, envs, copied, expandedPaths, excludes, files,
          dependencies>>

\* the regular files and the directories of the file system
RegularFiles == FSFiles \cup (IF ignorePresent THEN {IgnoreFilePath} ELSE {})
Entries == FSDirs \cup RegularFiles

\* os.Stat(p) succeeds
Exists(p) == Abs(p) \in Entries
IsDirectory(p) == Abs(p) \in FSDirs
IsRegular(p) == Abs(p) \in RegularFiles

\* Readdirnames: the names of the entries of a directory
Names(dir) == { Base(e) : e \in { x \in Entries : x # <<"/">> /\ Dir(x) = Abs(dir) } }

\* glob of filepath.Glob: the entries of dir whose name matches the pattern
\* element; nothing when dir is no directory
glob(dir, pattern) ==
    IF ~IsDirectory(dir) THEN [err |-> FALSE, m |-> {}]
    ELSE [err |-> \E n \in Names(dir) : Match(pattern, n) = "bad",
          m   |-> { Join(dir, n) : n \in { x \in Names(dir) : Match(pattern, x) = "yes" } }]

\* cleanGlobPath of filepath.Glob: the directory part of a pattern
cleanGlobPath(pattern) ==
    LET k == LastSlash(pattern, Len(pattern))
    IN  IF k = 0 THEN <<".">>
        ELSE IF k = 1 THEN <<"/">>
        ELSE SubSeq(pattern, 1, k - 1)

\* filepath.Glob: [err, m], err for ErrBadPattern, m the set of matches
RECURSIVE Glob(_)
Glob(pattern) ==
    IF ~hasMeta(pattern)
    THEN [err |-> FALSE, m |-> IF Exists(pattern) THEN {pattern} ELSE {}]
    ELSE LET dir  == cleanGlobPath(pattern)
             file == Base(pattern)
         IN  IF ~hasMeta(dir) THEN glob(dir, file)
             ELSE LET ds == Glob(dir)
                      rs == { glob(d, file) : d \in ds.m }
                  IN  [err |-> ds.err \/ \E r \in rs : r.err,
                       m   |-> UNION { r.m : r \in rs }]

(***************************************************************************)
(* fileutils.PatternMatcher of docker/pkg/fileutils                        *)
(***************************************************************************)

\* the regular expression a pattern compiles to, applied to a path: "**"
\* (with the slash after it) is any prefix ending in a slash or nothing,
\* at the end of the pattern anything; "*" is any run without a slash;
\* "?" is one character other than a slash
RECURSIVE regexpMatch(_, _)
regexpMatch(pat, s) ==
    IF pat = <<>> THEN s = <<>>
    ELSE IF HasPrefix(pat, <<"*", "*">>)
         THEN LET r0   == Drop(pat, 2)
                  rest == IF HasPrefix(r0, <<"/">>) THEN Tail(r0) ELSE r0
              IN  IF rest = <<>> THEN TRUE
                  ELSE \/ regexpMatch(rest, s)
                       \/ \E k \in 1..Len(s) : s[k] = "/" /\ regexpMatch(rest, Drop(s, k))
    ELSE IF Head(pat) = "*"
         THEN \E k \in 0..Len(s) :
                  /\ \A j \in 1..k : s[j] # "/"
                  /\ regexpMatch(Tail(pat), Drop(s, k))
    ELSE IF s = <<>> THEN FALSE
    ELSE IF Head(pat) = "?" THEN s[1] # "/" /\ regexpMatch(Tail(pat), Tail(s))
    ELSE Head(pat) = Head(s) /\ regexpMatch(Tail(pat), Tail(s))

\* NewPatternMatcher: a pattern is cleaned; a leading "!" makes it an
\* exclusion; a lone "!" is an error
exclusion(p) == HasPrefix(p, <<"!">>)
cleanedPattern(p) == IF exclusion(p) THEN Clean(Tail(p)) ELSE Clean(p)
NewPatternMatcherFails(patterns) == \E k \in 1..Len(patterns) : patterns[k] = <<"!">>

\* one pattern of PatternMatcher.Matches: the file itself, or else the
\* leading directories of its parent, as many as the pattern has elements
patternHits(p, file) ==
    LET cp             == cleanedPattern(p)
        parentPath     == Dir(file)
        parentPathDirs == Split(parentPath, "/")
        dirs           == Split(cp, "/")
    IN  \/ regexpMatch(cp, file)
        \/ /\ parentPath # <<".">>
           /\ Len(dirs) <= Len(parentPathDirs)
           /\ regexpMatch(cp, JoinSep(SubSeq(parentPathDirs, 1, Len(dirs)), "/"))

\* PatternMatcher.Matches: the last pattern that hits decides
RECURSIVE MatchesFrom(_, _, _)
MatchesFrom(patterns, file, matched) ==
    IF patterns = <<>> THEN matched
    ELSE MatchesFrom(Tail(patterns), file,
                     IF patternHits(Head(patterns), file)
                     THEN ~exclusion(Head(patterns))
                     ELSE matched)

Matches(patterns, file) == MatchesFrom(patterns, file, FALSE)

(***************************************************************************)
(* sort.Strings: byte-wise lexicographic order.  AsciiTable lists the       *)
(* printable characters from code 32 on; the double quote, the backslash  *)
(* and the backtick, which no string of the model holds, are spelled out. *)
(***************************************************************************)
AsciiTable ==
    <<" ", "!", "quote", "#", "$", "%", "&", "'", "(", ")", "*", "+", ",", "-", ".", "/",
      "0", "1", "2", "3", "4", "5", "6", "7", "8", "9", ":", ";", "<", "=", ">", "?",
      "@", "A", "B", "C", "D", "E", "F", "G", "H", "I", "J", "K", "L", "M", "N", "O",
      "P", "Q", "R", "S", "T", "U", "V", "W", "X", "Y", "Z", "[", "backslash", "]", "^", "_",
      "backtick", "a", "b", "c", "d", "e", "f", "g", "h", "i", "j", "k", "l", "m", "n", "o",
      "p", "q", "r", "s", "t", "u", "v", "w", "x", "y", "z", "{", "|", "}", "~">>

CharCode(c) == 31 + CHOOSE k \in 1..Len(AsciiTable) : AsciiTable[k] = c

\* a < b as Go compares strings
RECURSIVE StringLess(_, _)
StringLess(a, b) ==
    IF b = <<>> THEN FALSE
    ELSE IF a = <<>> THEN TRUE
    ELSE IF Head(a) = Head(b) THEN StringLess(Tail(a), Tail(b))
    ELSE CharCode(Head(a)) < CharCode(Head(b))

\* SortStrings with the comparison turned round
RECURSIVE SortStringsDescending(_)
SortStringsDescending(S) ==
    IF S = {} THEN <<>>
    ELSE LET m == CHOOSE x \in S : \A y \in S \ {x} : StringLess(y, x)
         IN  <<m>> \o SortStringsDescending(S \ {m})

\* the elements of a set of strings in ascending order
RECURSIVE SortStrings(_)
SortStrings(S) ==
    IF S = {} THEN <<>>
    ELSE LET m == CHOOSE x \in S : \A y \in S \ {x} : StringLess(x, y)
         IN  <<m>> \o SortStrings(S \ {m})

(***************************************************************************)
(* parse.go                                                                *)
(***************************************************************************)

\* a parser.Node without and with flags
Node(cmd, toks) == [cmd |-> cmd, toks |-> toks, flags |-> <<>>]
NodeF(cmd, flags, toks) == [cmd |-> cmd, toks |-> toks, flags |-> flags]

\* util.Expand: every "${key}" and then every "$key" becomes the value; the
\* reference is not word-bounded
Expand(text, key, value) ==
    ReplaceAll(ReplaceAll(text, <<"$", "{">> \o key \o <<"}">>, value), <<"$">> \o key, value)

\* a string holds "{{"
HasAction(t) == \E k \in 1..Len(t) : HasPrefix(Drop(t, k - 1), <<"{", "{">>)

\* evaluateBuildArgsValue: the value is a template rendered with no
\* bindings.  A text without "{{" renders as itself; of the templates with
\* an action only the unterminated one, which fails to parse, is modelled.
evaluateBuildArgsValue(nameTemplate) ==
    [err |-> HasAction(nameTemplate), value |-> nameTemplate]

\* expandBuildArgs: the key of an ARG node, strings.Split(node.Next.Value, "=")[0]
argKey(node) == Split(node.toks[1], "=")[1]

\* expandBuildArgs: the value of the ARG node: the build argument when there
\* is one, else the default after "=", else empty
argValue(node, args) ==
    LET keyValue == Split(node.toks[1], "=")
        key      == keyValue[1]
    IN  IF key \in DOMAIN args THEN evaluateBuildArgsValue(args[key])
        ELSE IF Len(keyValue) > 1 THEN [err |-> FALSE, value |-> keyValue[2]]
        ELSE [err |-> FALSE, value |-> <<>>]

\* stopIndex without the break at a redefinition: the replacement runs to
\* the end of the nodes
stopIndexNoBreak(ns, k, key) == Len(ns) + 1

\* expandBuildArgs: the index at which the inner loop over nodes[i+1:]
\* breaks: the first later ARG node with the same key, or past the end
RECURSIVE stopIndex(_, _, _)
stopIndex(ns, k, key) ==
    IF k > Len(ns) THEN k
    ELSE IF ns[k].cmd = "arg" /\ argKey(ns[k]) = key THEN k
    ELSE stopIndex(ns, k + 1, key)

\* expandNode restricted to the ARG, COPY and ADD nodes: a FROM node keeps
\* its references
expandNodeCopyOnly(node, key, value) ==
    IF node.cmd \in {"arg", "copy", "add"}
    THEN [node EXCEPT !.toks = [t \in 1..Len(node.toks) |-> Expand(node.toks[t], key, value)]]
    ELSE node

\* expandBuildArgs: the replacement in one node, every token of its chain
\* (node.Value itself is an instruction name and holds no reference)
expandNode(node, key, value) ==
    [node EXCEPT !.toks = [t \in 1..Len(node.toks) |-> Expand(node.toks[t], key, value)]]

\* expandBuildArgs: the body of the outer loop for the ARG node at index i
expandArgAt(ns, i, value) ==
    LET key  == argKey(ns[i])
        stop == stopIndex(ns, i + 1, key)
    IN  [k \in 1..Len(ns) |-> IF i < k /\ k < stop THEN expandNode(ns[k], key, value) ELSE ns[k]]

\* fromInstruction
fromInstruction(node) ==
    LET as == IF Len(node.toks) >= 3 /\ ToLower(node.toks[2]) = <<"a", "s">>
              THEN node.toks[3] ELSE <<>>
    IN  [image |-> node.toks[1], as |-> ToLower(as)]

\* fromInstructions
fromInstructions(ns) ==
    LET fs == SelectSeq(ns, LAMBDA n : n.cmd = "from")
    IN  [k \in 1..Len(fs) |-> fromInstruction(fs[k])]

\* onbuildInstructions: `scratch` is case insensitive
isScratch(image) == ToLower(image) = <<"s", "c", "r", "a", "t", "c", "h">>

\* isStage comparing the image name as written
isStageCaseSensitive(image, stgs) == image \in stgs

\* onbuildInstructions: stage names are case insensitive
isStage(image, stgs) == ToLower(image) \in stgs

\* parser.Parse of the joined ONBUILD instructions fails: of the texts the
\* parser rejects, "ENV x" (ENV must have two arguments) is modelled, as an
\* env node with a single token
ParseFails(ns) == \E k \in 1..Len(ns) : ns[k].cmd = "env" /\ Len(ns[k].toks) = 1

\* the characters of a shell variable name
NameChars ==
    DOMAIN LowerOf \cup { LowerOf[c] : c \in DOMAIN LowerOf } \cup
    {"0", "1", "2", "3", "4", "5", "6", "7", "8", "9", "_"}

\* the length of the longest prefix of w made of name characters
RECURSIVE nameLen(_)
nameLen(w) == IF w = <<>> \/ Head(w) \notin NameChars THEN 0 ELSE 1 + nameLen(Tail(w))

\* the index of the first "}" of w, 0 when there is none
RECURSIVE braceAt(_, _)
braceAt(w, k) == IF k > Len(w) THEN 0 ELSE IF w[k] = "}" THEN k ELSE braceAt(w, k + 1)

getEnv(name, env) == IF name \in DOMAIN env THEN env[name] ELSE <<>>

\* shell.Lex.ProcessWord on a word without quotes and escapes: $name and
\* ${name} become the variable's value, empty when it is unset; "${" that
\* no "}" closes is a syntax error
RECURSIVE ProcessWord(_, _)
ProcessWord(w, env) ==
    IF w = <<>> THEN [err |-> FALSE, value |-> <<>>]
    ELSE IF Head(w) # "$"
         THEN LET r == ProcessWord(Tail(w), env)
              IN  [err |-> r.err, value |-> <<Head(w)>> \o r.value]
    ELSE IF HasPrefix(w, <<"$", "{">>)
         THEN LET b == braceAt(w, 3)
              IN  IF b = 0 THEN [err |-> TRUE, value |-> <<>>]
                  ELSE LET r == ProcessWord(Drop(w, b), env)
                       IN  [err |-> r.err,
                            value |-> getEnv(SubSeq(w, 3, b - 1), env) \o r.value]
    ELSE LET n == nameLen(Tail(w))
             r == ProcessWord(Drop(w, n + 1), env)
         IN  [err |-> r.err,
              value |-> (IF n = 0 THEN <<"$">> ELSE getEnv(SubSeq(w, 2, n + 1), env)) \o r.value]

\* processShellWord
processShellWord(word, env) == ProcessWord(word, env)

\* hasMultiStageFlag looking for the bare flag name
hasMultiStageFlagExact(flags) == \E k \in 1..Len(flags) : flags[k] = <<"-", "-", "f", "r", "o", "m">>

\* hasMultiStageFlag
hasMultiStageFlag(flags) == \E k \in 1..Len(flags) : HasPrefix(flags[k], <<"-", "-", "f", "r", "o", "m", "=">>)

\* isRemote knowing one scheme only
isRemoteHttpOnly(src) == HasPrefix(src, <<"h", "t", "t", "p", ":", "/", "/">>)

\* processCopy: a source that is fetched, not read from the workspace
isRemote(src) == HasPrefix(src, <<"h", "t", "t", "p", ":", "/", "/">>) \/ HasPrefix(src, <<"h", "t", "t", "p", "s", ":", "/", "/">>)

\* processCopy: the loop stops at the last token, the destination, and at
\* the token before a comment
atEnd(toks, k) == k + 1 > Len(toks) \/ HasPrefix(toks[k + 1], <<"#">>)

\* processCopy: the loop from the k-th token on, copied so far in acc
RECURSIVE processCopyFrom(_, _, _, _)
processCopyFrom(node, env, k, acc) ==
    IF atEnd(node.toks, k) THEN [err |-> FALSE, files |-> acc]
    ELSE LET src == processShellWord(node.toks[k], env)
         IN  IF src.err THEN [err |-> TRUE, files |-> <<>>]
             ELSE IF hasMultiStageFlag(node.flags) THEN [err |-> FALSE, files |-> <<>>]
             ELSE processCopyFrom(node, env, k + 1,
                                  IF isRemote(src.value) THEN acc ELSE Append(acc, src.value))

\* processCopy
processCopy(node, env) == processCopyFrom(node, env, 1, <<>>)

\* copiedFiles: the ENV case, one name/value pair from the k-th token on
RECURSIVE setEnvs(_, _, _)
setEnvs(env, toks, k) ==
    IF k + 1 > Len(toks) THEN env
    ELSE setEnvs([n \in DOMAIN env \cup {toks[k]} |->
                     IF n = toks[k] THEN toks[k + 1] ELSE env[n]],
                 toks, k + 2)

\* expandGroup asking every pattern of the group to match, and taking a
\* malformed pattern for one that matches nothing
RECURSIVE expandGroupEveryToken(_, _, _, _, _)
expandGroupEveryToken(ws, group, k, paths, matchesOne) ==
    IF k > Len(group) THEN [err |-> "", paths |-> paths]
    ELSE LET p    == group[k]
             path == Join(ws, p)
         IN  IF Exists(path) THEN expandGroupEveryToken(ws, group, k + 1, paths \cup {p}, TRUE)
             ELSE LET g == Glob(path)
                  IN  IF g.err \/ g.m = {}
                      THEN [err |-> "must match at least one file", paths |-> paths]
                      ELSE expandGroupEveryToken(ws, group, k + 1,
                                                 paths \cup { Rel(ws, f) : f \in g.m }, TRUE)

\* expandPaths: the inner loop over one group from its k-th pattern on.
\* err is "" or the error returned; paths are the keys added to
\* expandedPaths.
RECURSIVE expandGroup(_, _, _, _, _)
expandGroup(ws, group, k, paths, matchesOne) ==
    IF k > Len(group)
    THEN IF matchesOne THEN [err |-> "", paths |-> paths]
         ELSE [err |-> "must match at least one file", paths |-> paths]
    ELSE LET p    == group[k]
             path == Join(ws, p)
         IN  IF Exists(path) THEN expandGroup(ws, group, k + 1, paths \cup {p}, TRUE)
             ELSE LET g == Glob(path)
                  IN  IF g.err THEN [err |-> "invalid glob pattern", paths |-> paths]
                      ELSE IF g.m = {} THEN expandGroup(ws, group, k + 1, paths, matchesOne)
                      ELSE IF \E f \in g.m : RelFails(ws, f)
                           THEN [err |-> "getting relative path", paths |-> paths]
                      ELSE expandGroup(ws, group, k + 1,
                                       paths \cup { Rel(ws, f) : f \in g.m }, TRUE)

\* NormalizeDockerfilePath
NormalizeDockerfilePath(context, dockerfile) ==
    IF IsAbs(dockerfile) THEN dockerfile
    ELSE IF ~HasPrefix(dockerfile, context) THEN Abs(Join(context, dockerfile))
    ELSE Abs(dockerfile)

\* walkDir going down into a directory that matches
RECURSIVE walkDirNoPrune(_, _, _)
walkDirNoPrune(ws, excl, dir) ==
    UNION { LET fpath   == Join(dir, n)
                relPath == Rel(ws, fpath)
            IN  IF IsDirectory(fpath) THEN walkDirNoPrune(ws, excl, fpath)
                ELSE (IF Matches(excl, relPath) THEN {} ELSE {relPath})
            : n \in Names(dir) }

\* WalkWorkspace: the callback of godirwalk.Walk below a directory: a
\* directory that matches is skipped with all it holds, a file that matches
\* is left out, every other file is added by its path relative to the
\* workspace
RECURSIVE walkDir(_, _, _)
walkDir(ws, excl, dir) ==
    UNION { LET fpath   == Join(dir, n)
                relPath == Rel(ws, fpath)
                ignored == Matches(excl, relPath)
            IN  IF IsDirectory(fpath)
                THEN (IF ignored THEN {} ELSE walkDir(ws, excl, fpath))
                ELSE (IF ignored THEN {} ELSE {relPath})
            : n \in Names(dir) }

\* WalkWorkspace: the files one dependency adds
walkDep(ws, excl, d) ==
    LET dep    == Clean(d)
        absDep == Join(ws, dep)
    IN  IF IsDirectory(absDep) THEN walkDir(ws, excl, absDep)
        ELSE IF IsRegular(absDep) /\ ~Matches(excl, dep) THEN {dep}
        ELSE {}

\* WalkWorkspace: os.Stat fails for a dependency
statFails(ws, deps) == \E d \in deps : ~Exists(Join(ws, Clean(d)))

\* WalkWorkspace
WalkWorkspace(ws, excl, deps) == UNION { walkDep(ws, excl, d) : d \in deps }

\* GetDependencies: the key under which the Dockerfile is added
dockerfileKey(path, absPath) == IF ~IsAbs(path) THEN path ELSE absPath

\* withDockerfile without the delete of .dockerignore
withDockerfileKeepIgnore(fs, path, absPath) == fs \cup {dockerfileKey(path, absPath)}

\* GetDependencies: "Always add dockerfile", then "Ignore .dockerignore"
withDockerfile(fs, path, absPath) ==
    (fs \cup {dockerfileKey(path, absPath)}) \ {sDockerignore}

(***************************************************************************)
(* Inputs                                                                  *)
(***************************************************************************)

\* the longest list of ONBUILD triggers an image config holds
MaxOnBuild == 1
\* the longest list of patterns .dockerignore holds
MaxExcludes == 2

\* the sequences over S of length at most n
SeqsUpTo(S, n) == UNION { [1..k -> S] : k \in 0..n }

From(image) == Node("from", <<image>>)
FromAs(image, kw, alias) == Node("from", <<image, kw, alias>>)
Arg(decl) == Node("arg", <<decl>>)
Copy(toks) == Node("copy", toks)
CopyFrom(flag, toks) == NodeF("copy", <<flag>>, toks)
Add(toks) == Node("add", toks)
Env(toks) == Node("env", toks)

Workspaces == {<<"w", "s">>, <<"/", "r", "/", "w", "s">>}

DockerfilePaths ==
    {<<"D", "o", "c", "k", "e", "r", "f", "i", "l", "e">>, <<"w", "s", "/", "D", "o", "c", "k", "e", "r", "f", "i", "l", "e">>, <<"/", "r", "/", "w", "s", "/", "D", "o", "c", "k", "e", "r", "f", "i", "l", "e">>, <<".", "d", "o", "c", "k", "e", "r", "i", "g", "n", "o", "r", "e">>, <<"m", "i", "s", "s", "i", "n", "g">>}

BuildArgMaps ==
    { <<>>,
      [k \in {<<"V", "E", "R", "S", "I", "O", "N">>} |-> <<"1", ".", "2">>],
      [k \in {<<"V">>} |-> <<"i", "g", "n", "o", "r", "e", "d", ".", "t", "x", "t">>],
      [k \in {<<"V">>} |-> <<"{", "{">>] }

\* the Dockerfiles the file at /r/ws/Dockerfile may hold, as parsed
Dockerfiles ==
    { <<>>,
      <<From(<<"a", "l", "p", "i", "n", "e">>), Copy(<<<<".", "/", "f", "i", "l", "e", "s">>, <<"/", "f", "i", "l", "e", "s">>>>)>>,
      <<Arg(<<"V", "E", "R", "S", "I", "O", "N">>), From(<<"b", "a", "s", "e", ":", "$", "{", "V", "E", "R", "S", "I", "O", "N", "}">>), Copy(<<<<"D", "o", "c", "k", "e", "r", "f", "i", "l", "e">>, <<"/", "d">>>>)>>,
      <<Arg(<<"V", "=", "f", "i", "l", "e", "s">>), Copy(<<<<"$", "V">>, <<"/", "a">>>>), Arg(<<"V", "=", "i", "g", "n", "o", "r", "e", "d", ".", "t", "x", "t">>), Copy(<<<<"$", "{", "V", "}">>, <<"/", "b">>>>)>>,
      <<FromAs(<<"g", "o", "l", "a", "n", "g">>, <<"A", "S">>, <<"B", "u", "i", "l", "d", "e", "r">>), From(<<"S", "C", "R", "A", "T", "C", "H">>), FromAs(<<"B", "U", "I", "L", "D", "E", "R">>, <<"a", "s">>, <<"x">>),
        CopyFrom(<<"-", "-", "f", "r", "o", "m", "=", "b", "u", "i", "l", "d", "e", "r">>, <<<<"n", "o", "t", "h", "e", "r", "e">>, <<"/", "a", "p", "p">>>>), From(<<"a", "l", "p", "i", "n", "e">>)>>,
      <<FromAs(<<"s", "e", "l", "f">>, <<"A", "S">>, <<"s", "e", "l", "f">>), From(<<"l", "a", "t", "e", "r">>), FromAs(<<"S", "c", "r", "a", "t", "c", "h">>, <<"a", "s">>, <<"l", "a", "t", "e", "r">>)>>,
      <<From(<<"s", "c", "r", "a", "t", "c", "h">>), Add(<<<<"h", "t", "t", "p", ":", "/", "/", "x", "/", "a">>, <<"h", "t", "t", "p", "s", ":", "/", "/", "y", "/", "b">>, <<"/", "d", "s", "t">>>>),
        Copy(<<<<"i", "g", "n", "o", "r", "e", "d", ".", "t", "x", "t">>, <<"h", "t", "t", "p", ":", "/", "/", "z">>, <<"/", "d", "s", "t">>>>), CopyFrom(<<"-", "-", "f", "r", "o", "m", "=", "0">>, <<<<"/", "x">>>>)>>,
      <<CopyFrom(<<"-", "-", "f", "r", "o", "m", "=", "0">>, <<<<"$", "{">>, <<"/", "x">>>>)>>,
      <<Copy(<<<<"n", "o", "m", "a", "t", "c", "h">>, <<"/", "x">>>>)>>,
      <<Copy(<<<<"n", "o", "m", "a", "t", "c", "h">>, <<"i", "g", "n", "o", "r", "e", "d", ".", "t", "x", "t">>, <<"/", "x">>>>), Copy(<<<<"*", ".", "t", "x", "t">>, <<"f", "i", "l", "e", "s", "/", "*", ".", "t", "x", "t">>, <<"/", "y">>>>),
        Copy(<<<<"f", "*", "/", "s", "u", "b", "/", "*">>, <<"/", "z">>>>)>>,
      <<Copy(<<<<"i", "g", "n", "o", "r", "e", "d", ".", "t", "x", "t">>, <<"[">>, <<"/", "x">>>>)>>,
      <<Copy(<<<<"[">>, <<"/", "x">>>>)>>,
      <<Copy(<<<<"i", "g", "n", "o", "r", "e", "d", ".", "t", "x", "t">>, <<"/", "d", "s", "t">>, <<"#">>, <<"n", "o", "t", "e">>>>), Copy(<<<<"#", "x">>, <<"f", "i", "l", "e", "s">>, <<"/", "d", "s", "t">>>>)>>,
      <<Env(<<<<"S", "R", "C">>, <<"f", "i", "l", "e", "s">>, <<"T">>, <<"i", "g", "n", "o", "r", "e", "d", ".", "t", "x", "t">>>>),
        Copy(<<<<"$", "S", "R", "C", "/", "i", "n", "c", "l", "u", "d", "e", "d", ".", "t", "x", "t">>, <<"$", "{", "T", "}">>, <<"/", "x">>>>)>>,
      <<Copy(<<<<".">>, <<"/", "a", "p", "p">>>>)>>,
      <<Copy(<<<<"/", "i", "g", "n", "o", "r", "e", "d", ".", "t", "x", "t">>, <<"/", ".", "d", "o", "c", "k", "e", "r", "i", "g", "n", "o", "r", "e">>, <<"/", "x">>>>)>>,
      <<Arg(<<"V", "=", "f", "i", "l", "e", "s">>), From(<<"p", "a", "r", "e", "n", "t">>), Copy(<<<<"$", "V", "/", "i", "n", "c", "l", "u", "d", "e", "d", ".", "t", "x", "t">>, <<"/", "x">>>>)>> }

\* the file a Dockerfile path names, as parser.Parse returns it: the
\* Dockerfile of the workspace holds any of the Dockerfiles; .dockerignore,
\* read as a Dockerfile, is taken to hold no line but comments
ParsedAt(abs) == IF abs = IgnoreFilePath THEN { <<>> } ELSE Dockerfiles

\* the ONBUILD triggers of an image config, as parser.Parse returns them
Triggers ==
    { Copy(<<<<"i", "g", "n", "o", "r", "e", "d", ".", "t", "x", "t">>, <<"/", "t">>>>),
      Copy(<<<<"$", "V", "/", "i", "n", "c", "l", "u", "d", "e", "d", ".", "t", "x", "t">>, <<"/", "t">>>>),
      Env(<<<<"x">>>>) }

\* what RetrieveImage returns: an error, or a config with its triggers
RetrieveResults ==
    { [ok |-> FALSE, OnBuild |-> <<>>] } \cup
    { [ok |-> TRUE, OnBuild |-> t] : t \in SeqsUpTo(Triggers, MaxOnBuild) }

\* the patterns dockerignore.ReadAll returns
IgnorePatterns ==
    {<<"*", "*", "/", "i", "g", "n", "o", "r", "e", "d", ".", "t", "x", "t">>, <<"f", "i", "l", "e", "s">>, <<"!", "f", "i", "l", "e", "s", "/", "i", "n", "c", "l", "u", "d", "e", "d", ".", "t", "x", "t">>, <<"*">>, <<"!">>}

\* what dockerignore.ReadAll returns for the .dockerignore of the workspace;
\* when that file is also the Dockerfile it holds no pattern
ExcludeLists(abs) ==
    IF abs = IgnoreFilePath THEN { <<>> } ELSE SeqsUpTo(IgnorePatterns, MaxExcludes)

(***************************************************************************)
(* GetDependencies, step by step                                           *)
(***************************************************************************)
Init ==
    /\ workspace \in Workspaces
    /\ dockerfilePath \in DockerfilePaths
    /\ buildArgs \in BuildArgMaps
    /\ ignorePresent \in BOOLEAN
    /\ pc = "GetDependencies"
    /\ err = ""
    /\ absDockerfilePath = <<>>
    /\ dockerfileLines = <<>>
    /\ idx = 0
    /\ stages = {}
    /\ instructions = <<>>
    /\ lookups = <<>>
    /\ nodes = <<>>
    /\ envs = <<>>
    /\ copied = <<>>
    /\ expandedPaths = {}
    /\ excludes = <<>>
    /\ files = {}
    /\ dependencies = <<>>

\* an error return of GetDependencies
Fail(msg) == pc' = "error" /\ err' = msg

\* GetDependencies: the call of NormalizeDockerfilePath
Normalize ==
    /\ pc = "GetDependencies"
    /\ absDockerfilePath' = NormalizeDockerfilePath(workspace, dockerfilePath)
    /\ pc' = "readDockerfile"
    /\ UNCHANGED <<workspace, dockerfilePath, buildArgs, ignorePresent, err,
                   dockerfileLines, idx, stages, instructions, lookups, nodes,
                   envs, copied, expandedPaths, excludes, files, dependencies>>

\* readDockerfile: os.Open and parser.Parse
ReadDockerfile ==
    /\ pc = "readDockerfile"
    /\ IF ~IsRegular(absDockerfilePath)
       THEN Fail("opening dockerfile") /\ UNCHANGED <<dockerfileLines, idx>>
       ELSE /\ dockerfileLines' \in ParsedAt(absDockerfilePath)
            /\ idx' = 1
            /\ pc' = "expandBuildArgs"
            /\ err' = err
    /\ UNCHANGED <<workspace, dockerfilePath, buildArgs, ignorePresent,
                   absDockerfilePath, stages, instructions, lookups, nodes,
                   envs, copied, expandedPaths, excludes, files, dependencies>>

\* expandBuildArgs: one round of the outer loop, or its end
ExpandBuildArgs ==
    /\ pc = "expandBuildArgs"
    /\ IF idx > Len(dockerfileLines)
       THEN /\ pc' = "onbuildInstructions"
            /\ idx' = 1
            /\ UNCHANGED <<err, dockerfileLines>>
       ELSE IF dockerfileLines[idx].cmd # "arg"
       THEN /\ idx' = idx + 1
            /\ UNCHANGED <<pc, err, dockerfileLines>>
       ELSE LET v == argValue(dockerfileLines[idx], buildArgs)
            IN  IF v.err
                THEN Fail("putting build arguments") /\ UNCHANGED <<idx, dockerfileLines>>
                ELSE /\ dockerfileLines' = expandArgAt(dockerfileLines, idx, v.value)
                     /\ idx' = idx + 1
                     /\ UNCHANGED <<pc, err>>
    /\ UNCHANGED <<workspace, dockerfilePath, buildArgs, ignorePresent,
                   absDockerfilePath, stages, instructions, lookups, nodes,
                   envs, copied, expandedPaths, excludes, files, dependencies>>

\* afterLookup dropping the triggers collected so far when a lookup fails
afterLookupReset(instrs, r) == IF r.ok THEN instrs \o r.OnBuild ELSE <<>>

\* onbuildInstructions: what a lookup adds to the instructions
afterLookup(instrs, r) == IF r.ok THEN instrs \o r.OnBuild ELSE instrs

\* copiedFilesInput with the triggers after the lines of the Dockerfile
copiedFilesInputLinesFirst(instrs, lines) == lines \o instrs

\* readDockerfile: the nodes copiedFiles is given
copiedFilesInput(instrs, lines) == instrs \o lines

\* onbuildInstructions: one round of the loop over the FROM instructions,
\* or, after it, the parse of the collected triggers and the return to
\* readDockerfile
OnbuildInstructions ==
    /\ pc = "onbuildInstructions"
    /\ LET froms == fromInstructions(dockerfileLines)
       IN  IF idx > Len(froms)
           THEN /\ IF ParseFails(instructions)
                   THEN Fail("listing ONBUILD instructions") /\ UNCHANGED <<idx, nodes>>
                   ELSE /\ nodes' = copiedFilesInput(instructions, dockerfileLines)
                        /\ idx' = 1
                        /\ pc' = "copiedFiles"
                        /\ err' = err
                /\ UNCHANGED <<stages, instructions, lookups>>
           ELSE LET from == froms[idx]
                    stgs == stages \cup {ToLower(from.as)}
                IN  /\ stages' = stgs
                    /\ idx' = idx + 1
                    /\ UNCHANGED <<pc, err, nodes>>
                    /\ IF isScratch(from.image) \/ isStage(from.image, stgs)
                       THEN UNCHANGED <<instructions, lookups>>
                       ELSE \E r \in RetrieveResults :
                                /\ lookups' = Append(lookups, [from |-> idx, image |-> from.image,
                                                            ok |-> r.ok, OnBuild |-> r.OnBuild])
                                /\ instructions' = afterLookup(instructions, r)
    /\ UNCHANGED <<workspace, dockerfilePath, buildArgs, ignorePresent,
                   absDockerfilePath, dockerfileLines, envs, copied,
                   expandedPaths, excludes, files, dependencies>>

\* copiedFiles: one round of the loop over the nodes, or its end
CopiedFiles ==
    /\ pc = "copiedFiles"
    /\ IF idx > Len(nodes)
       THEN /\ pc' = "expandPaths"
            /\ idx' = 1
            /\ UNCHANGED <<err, envs, copied>>
       ELSE LET node == nodes[idx]
            IN  IF node.cmd \in {"add", "copy"}
                THEN LET r == processCopy(node, envs)
                     IN  IF r.err
                         THEN Fail("listing copied files") /\ UNCHANGED <<idx, envs, copied>>
                         ELSE /\ copied' = IF Len(r.files) > 0
                                           THEN Append(copied, r.files) ELSE copied
                              /\ idx' = idx + 1
                              /\ UNCHANGED <<pc, err, envs>>
                ELSE /\ envs' = IF node.cmd = "env" THEN setEnvs(envs, node.toks, 1) ELSE envs
                     /\ idx' = idx + 1
                     /\ UNCHANGED <<pc, err, copied>>
    /\ UNCHANGED <<workspace, dockerfilePath, buildArgs, ignorePresent,
                   absDockerfilePath, dockerfileLines, stages, instructions,
                   lookups, nodes, expandedPaths, excludes, files, dependencies>>

\* expandPaths: one round of the loop over the groups, or its end
ExpandPaths ==
    /\ pc = "expandPaths"
    /\ IF idx > Len(copied)
       THEN /\ pc' = "readIgnore"
            /\ UNCHANGED <<err, idx, expandedPaths>>
       ELSE LET r == expandGroup(workspace, copied[idx], 1, {}, FALSE)
            IN  IF r.err # ""
                THEN Fail(r.err) /\ UNCHANGED <<idx, expandedPaths>>
                ELSE /\ expandedPaths' = expandedPaths \cup r.paths
                     /\ idx' = idx + 1
                     /\ UNCHANGED <<pc, err>>
    /\ UNCHANGED <<workspace, dockerfilePath, buildArgs, ignorePresent,
                   absDockerfilePath, dockerfileLines, stages, instructions,
                   lookups, nodes, envs, copied, excludes, files, dependencies>>

\* GetDependencies: "Read patterns to ignore"
ReadIgnore ==
    /\ pc = "readIgnore"
    /\ IF ignorePresent
       THEN excludes' \in ExcludeLists(absDockerfilePath)
       ELSE excludes' = <<>>
    /\ pc' = "WalkWorkspace"
    /\ UNCHANGED <<workspace, dockerfilePath, buildArgs, ignorePresent, err,
                   absDockerfilePath, dockerfileLines, idx, stages, instructions,
                   lookups, nodes, envs, copied, expandedPaths, files,
                   dependencies>>

\* GetDependencies: the call of WalkWorkspace on the expanded paths
Walk ==
    /\ pc = "WalkWorkspace"
    /\ IF NewPatternMatcherFails(excludes) \/ statFails(workspace, expandedPaths)
       THEN Fail("walking workspace") /\ UNCHANGED files
       ELSE /\ files' = WalkWorkspace(workspace, excludes, expandedPaths)
            /\ pc' = "return"
            /\ err' = err
    /\ UNCHANGED <<workspace, dockerfilePath, buildArgs, ignorePresent,
                   absDockerfilePath, dockerfileLines, idx, stages, instructions,
                   lookups, nodes, envs, copied, expandedPaths, excludes,
                   dependencies>>

\* GetDependencies: the Dockerfile is added, .dockerignore deleted, the
\* keys are sorted and returned
Return ==
    /\ pc = "return"
    /\ dependencies' = SortStrings(withDockerfile(files, dockerfilePath, absDockerfilePath))
    /\ pc' = "done"
    /\ UNCHANGED <<workspace, dockerfilePath, buildArgs, ignorePresent, err,
                   absDockerfilePath, dockerfileLines, idx, stages, instructions,
                   lookups, nodes, envs, copied, expandedPaths, excludes, files>>

Next ==
    \/ Normalize
    \/ ReadDockerfile
    \/ ExpandBuildArgs
    \/ OnbuildInstructions
    \/ CopiedFiles
    \/ ExpandPaths
    \/ ReadIgnore
    \/ Walk
    \/ Return

Spec == Init /\ [][Next]_vars

(***************************************************************************)
(* Properties                                                              *)
(***************************************************************************)

\* the elements of a sequence
Range(s) == { s[k] : k \in 1..Len(s) }

\* the FROM nodes of the Dockerfile
FromNodes == SelectSeq(dockerfileLines, LAMBDA n : n.cmd = "from")

\* a FROM node names its stage: FROM image AS alias
HasAlias(n) == Len(n.toks) >= 3 /\ ToLower(n.toks[2]) = <<"a", "s">>

\* a path of the workspace matches as a literal path or as a glob
TokenHits(p) == Exists(Join(workspace, p)) \/ Glob(Join(workspace, p)).m # {}

\* a pattern that names no existing path and is a malformed glob
TokenMalformed(p) == ~Exists(Join(workspace, p)) /\ Glob(Join(workspace, p)).err

\* a string is a remote source
IsUrl(p) == HasPrefix(p, <<"h", "t", "t", "p", ":", "/", "/">>) \/ HasPrefix(p, <<"h", "t", "t", "p", "s", ":", "/", "/">>)

\* has a flag that starts with --from=
HasFromFlag(n) == \E k \in 1..Len(n.flags) : HasPrefix(n.flags[k], <<"-", "-", "f", "r", "o", "m", "=">>)

\* the number of tokens of a COPY/ADD chain read as sources: those before
\* the destination, which is the last token or the token before a comment
SourceCount(toks) ==
    LET ends == { k \in 1..Len(toks) : k = Len(toks) \/ HasPrefix(toks[k + 1], <<"#">>) }
    IN  (CHOOSE k \in ends : \A j \in ends : k <= j) - 1

\* the step about to be taken handles a COPY or ADD node
AtCopyNode ==
    /\ pc = "copiedFiles"
    /\ idx <= Len(nodes)
    /\ nodes[idx].cmd \in {"copy", "add"}

\* C1: when GetDependencies returns a list, the list holds the Dockerfile's
\* own path, whatever the ignore patterns are.
C1_DockerfileAlwaysPresent ==
    pc = "done" => dockerfilePath \in Range(dependencies)

\* C2: when GetDependencies returns a list, the path .dockerignore of the
\* ignore file is not in it.
C2_IgnoreFileAbsent ==
    pc = "done" => sDockerignore \notin Range(dependencies)

\* the walk found .dockerignore and the list was returned
C2_Witness == pc = "done" /\ sDockerignore \in files

\* C3, as stated: a group none of whose patterns matches a file yields the
\* error naming the group; a group with a pattern that matches never errs.
C3_Original ==
    [][ (pc = "expandPaths" /\ idx <= Len(copied)) =>
            IF \E k \in 1..Len(copied[idx]) : TokenHits(copied[idx][k])
            THEN pc' # "error"
            ELSE pc' = "error" /\ err' = "must match at least one file" ]_vars

\* C3, amended: a group with a malformed glob pattern that names no existing
\* path yields the error "invalid glob pattern", whether or not another of
\* its patterns matches; without such a pattern, a group that matches no
\* file yields the error naming the group and a group with a pattern that
\* matches does not err.
C3_Amended ==
    [][ (pc = "expandPaths" /\ idx <= Len(copied)) =>
            LET group == copied[idx]
                bad   == \E k \in 1..Len(group) : TokenMalformed(group[k])
                hit   == \E k \in 1..Len(group) : TokenHits(group[k])
            IN  /\ bad => (pc' = "error" /\ err' = "invalid glob pattern")
                /\ (~bad /\ ~hit) => (pc' = "error" /\ err' = "must match at least one file")
                /\ (~bad /\ hit) => (pc' = "expandPaths" /\ err' = "" /\ idx' = idx + 1) ]_vars

\* a group with a pattern that matches and one that does not was expanded
C3_Witness ==
    /\ pc = "expandPaths"
    /\ idx > 1
    /\ \E k \in 1..Len(copied[idx - 1]) : TokenHits(copied[idx - 1][k])
    /\ \E k \in 1..Len(copied[idx - 1]) : ~TokenHits(copied[idx - 1][k])

\* C4: no path of the returned list is absolute.
C4_AllRelative ==
    pc = "done" => \A k \in 1..Len(dependencies) : ~IsAbs(dependencies[k])

\* C5: the step of copiedFiles for a COPY or ADD node with a --from= flag
\* appends no group, whatever its tokens are.
C5_CrossStageAddsNothing ==
    [][ (AtCopyNode /\ HasFromFlag(nodes[idx])) => copied' = copied ]_vars

\* a COPY --from= node with a source token was handled
C5_Witness ==
    /\ pc = "copiedFiles"
    /\ idx > 1
    /\ nodes[idx - 1].cmd = "copy"
    /\ HasFromFlag(nodes[idx - 1])
    /\ Len(nodes[idx - 1].toks) >= 2

\* C6: when the source tokens of a COPY or ADD node all expand and one of
\* them expands to a URL, the step does not err; no group ever holds a URL;
\* and when all of them expand to URLs no group is appended.
C6_RemoteSourcesSkipped ==
    [][ AtCopyNode =>
            LET toks  == nodes[idx].toks
                n     == SourceCount(toks)
                words == [k \in 1..n |-> ProcessWord(toks[k], envs)]
            IN  ((\A k \in 1..n : ~words[k].err) /\ (\E k \in 1..n : IsUrl(words[k].value))) =>
                    /\ pc' = "copiedFiles"
                    /\ err' = ""
                    /\ \A g \in Range(copied') : \A p \in Range(g) : ~IsUrl(p)
                    /\ (\A k \in 1..n : IsUrl(words[k].value)) => copied' = copied ]_vars

\* an ADD node whose sources are all URLs was handled, and a COPY node with
\* a URL among its sources added a group
C6_Witness ==
    /\ pc = "copiedFiles"
    /\ idx > 3
    /\ nodes[idx - 2].cmd = "add"
    /\ \A k \in 1..SourceCount(nodes[idx - 2].toks) : IsUrl(nodes[idx - 2].toks[k])
    /\ \E k \in 1..SourceCount(nodes[idx - 1].toks) : IsUrl(nodes[idx - 1].toks[k])
    /\ Len(copied) = 1

\* C7: the round of expandBuildArgs for the ARG node at index i changes no
\* node at an index up to i and no node from the first later ARG node with
\* the same key on; so the round for a re-declaration leaves what the first
\* binding substituted as it is.
C7_SubstitutionScoped ==
    [][ (pc = "expandBuildArgs" /\ idx <= Len(dockerfileLines)
            /\ dockerfileLines[idx].cmd = "arg") =>
            LET key    == Split(dockerfileLines[idx].toks[1], "=")[1]
                redecl == { j \in (idx + 1)..Len(dockerfileLines) :
                              /\ dockerfileLines[j].cmd = "arg"
                              /\ Split(dockerfileLines[j].toks[1], "=")[1] = key }
            IN  /\ Len(dockerfileLines') = Len(dockerfileLines)
                /\ \A k \in 1..Len(dockerfileLines) :
                       (k <= idx \/ \E j \in redecl : j <= k) =>
                           dockerfileLines'[k] = dockerfileLines[k] ]_vars

\* ARG V=files, COPY $V, ARG V=ignored.txt, COPY ${V}: both rounds are done,
\* each COPY holds the value of the binding before it
C7_Witness ==
    /\ pc = "onbuildInstructions"
    /\ Len(dockerfileLines) = 4
    /\ dockerfileLines[1] = Arg(<<"V", "=", "f", "i", "l", "e", "s">>)
    /\ dockerfileLines[3] = Arg(<<"V", "=", "i", "g", "n", "o", "r", "e", "d", ".", "t", "x", "t">>)
    /\ dockerfileLines[2].toks[1] = <<"f", "i", "l", "e", "s">>
    /\ dockerfileLines[4].toks[1] = <<"i", "g", "n", "o", "r", "e", "d", ".", "t", "x", "t">>

\* C8: no call of RetrieveImage is for a FROM instruction whose image is
\* scratch in any letter case, or is, letter case aside, the alias of an
\* earlier FROM instruction.
C8_NoLookupForScratchOrStage ==
    \A l \in Range(lookups) :
        /\ l.from \in 1..Len(FromNodes)
        /\ ToLower(FromNodes[l.from].toks[1]) # <<"s", "c", "r", "a", "t", "c", "h">>
        /\ \A e \in 1..(l.from - 1) :
               HasAlias(FromNodes[e]) =>
                   ToLower(FromNodes[e].toks[3]) # ToLower(FromNodes[l.from].toks[1])

\* FROM golang AS Builder, FROM SCRATCH, FROM BUILDER as x, FROM alpine: the
\* loop is over and two images were looked up
C8_Witness ==
    /\ pc = "copiedFiles"
    /\ Len(FromNodes) = 4
    /\ FromNodes[2].toks[1] = <<"S", "C", "R", "A", "T", "C", "H">>
    /\ FromNodes[3].toks[1] = <<"B", "U", "I", "L", "D", "E", "R">>
    /\ Len(lookups) = 2

\* the triggers of the lookups that succeeded, in order
RECURSIVE TriggersOf(_)
TriggersOf(ls) ==
    IF ls = <<>> THEN <<>>
    ELSE (IF Head(ls).ok THEN Head(ls).OnBuild ELSE <<>>) \o TriggersOf(Tail(ls))

\* the stage name a FROM node adds to the stages: its alias, or the empty
\* name when it has none
AliasOf(n) == IF HasAlias(n) THEN ToLower(n.toks[3]) ELSE <<>>

\* the FROM instruction at index g is looked up: its image is not scratch
\* and no stage name added up to it, its own included
NeedsLookup(g) ==
    LET image == ToLower(FromNodes[g].toks[1])
    IN  /\ image # <<"s", "c", "r", "a", "t", "c", "h">>
        /\ \A e \in 1..g : AliasOf(FromNodes[e]) # image

\* C9: a call of RetrieveImage that fails does not end the resolution: the
\* loop goes on with the next FROM instruction, without an error and with
\* the instructions as they were; the instructions are always the triggers
\* of the calls that succeeded, and every FROM instruction the loop has
\* passed that needs a lookup got one.
C9_FailedLookupGoesOn ==
    [][ /\ (Len(lookups') = Len(lookups) + 1 /\ ~lookups'[Len(lookups')].ok) =>
               /\ pc' = "onbuildInstructions"
               /\ err' = ""
               /\ idx' = idx + 1
               /\ instructions' = instructions
        /\ instructions' = TriggersOf(lookups')
        /\ pc' = "onbuildInstructions" =>
               \A g \in 1..Len(FromNodes) :
                   (g < idx' /\ NeedsLookup(g)) => \E l \in Range(lookups') : l.from = g ]_vars

\* a lookup failed, a later one succeeded with triggers, and the list of
\* dependencies was returned
C9_Witness ==
    /\ pc = "done"
    /\ \E a, b \in 1..Len(lookups) :
           a < b /\ ~lookups[a].ok /\ lookups[b].ok /\ lookups[b].OnBuild # <<>>

\* C10: RetrieveImage is called after the build arguments are substituted,
\* with the image the FROM node holds then; for ARG VERSION, FROM
\* base:${VERSION} and the build argument VERSION=1.2 it is called for
\* base:1.2.
C10_LookupAfterSubstitution ==
    /\ lookups # <<>> => pc \notin {"GetDependencies", "readDockerfile", "expandBuildArgs"}
    /\ \A l \in Range(lookups) :
           l.from \in 1..Len(FromNodes) /\ l.image = FromNodes[l.from].toks[1]
    /\ (/\ lookups # <<>>
        /\ dockerfileLines[1] = Arg(<<"V", "E", "R", "S", "I", "O", "N">>)
        /\ buildArgs = [k \in {<<"V", "E", "R", "S", "I", "O", "N">>} |-> <<"1", ".", "2">>]) =>
           /\ Len(lookups) = 1
           /\ lookups[1].image = <<"b", "a", "s", "e", ":", "1", ".", "2">>

\* the image base:1.2 was looked up
C10_Witness == \E l \in Range(lookups) : l.image = <<"b", "a", "s", "e", ":", "1", ".", "2">>

\* C11: the list GetDependencies returns is in strictly ascending string
\* order: it is sorted and holds no path twice, and it holds the keys of the
\* walk with the Dockerfile's, however many instructions name one file.
C11_SortedNoDuplicates ==
    pc = "done" =>
        /\ \A i, j \in 1..Len(dependencies) :
               i < j => StringLess(dependencies[i], dependencies[j])
        /\ Range(dependencies) = withDockerfile(files, dockerfilePath, absDockerfilePath)

\* a list of three paths or more was returned, and one of them is named by
\* a COPY instruction as written and matched by a pattern of a later one
C11_Witness ==
    /\ pc = "done"
    /\ Len(dependencies) >= 3
    /\ \E a, b \in 1..Len(copied) :
           /\ a < b
           /\ \E p \in Range(copied[a]), q \in Range(copied[b]) :
                  /\ p \in Range(dependencies)
                  /\ ~Exists(Join(workspace, q))
                  /\ Join(workspace, p) \in Glob(Join(workspace, q)).m

\* the loop of onbuildInstructions has handled the FROM instruction at index g
LoopPassed(g) ==
    \/ pc = "onbuildInstructions" /\ g < idx
    \/ pc \in {"copiedFiles", "expandPaths", "readIgnore", "WalkWorkspace", "return", "done"}

\* the image of the FROM instruction at index g is not scratch and is not
\* the alias of a FROM instruction before it
ForeignImage(g) ==
    LET image == ToLower(FromNodes[g].toks[1])
    IN  /\ image # <<"s", "c", "r", "a", "t", "c", "h">>
        /\ \A e \in 1..(g - 1) : HasAlias(FromNodes[e]) => ToLower(FromNodes[e].toks[3]) # image

\* C12: every FROM instruction whose image is neither scratch nor the alias
\* of an earlier FROM instruction gets exactly one call of RetrieveImage,
\* with the image as written, and the calls are in the order of the
\* instructions; so FROM x AS x, and a FROM of an alias defined only later,
\* are looked up.
C12_OneLookupPerForeignFrom ==
    /\ \A a, b \in 1..Len(lookups) : a < b => lookups[a].from < lookups[b].from
    /\ \A l \in Range(lookups) :
           /\ l.from \in 1..Len(FromNodes)
           /\ l.image = FromNodes[l.from].toks[1]
    /\ \A g \in 1..Len(FromNodes) :
           (LoopPassed(g) /\ ForeignImage(g)) => \E l \in Range(lookups) : l.from = g

\* C13: the nodes given to copiedFiles are the triggers of the looked-up
\* images, in the order of the stages, followed by all the lines of the
\* Dockerfile; the triggers are as RetrieveImage returned them, so a $NAME
\* in a trigger is not replaced by the build argument NAME.
C13_TriggersFirstUnsubstituted ==
    pc \in {"copiedFiles", "expandPaths", "readIgnore", "WalkWorkspace", "return", "done"} =>
        LET triggers == TriggersOf(lookups)
        IN  /\ nodes = triggers \o dockerfileLines
            /\ \A k \in 1..Len(triggers) : nodes[k] \in Triggers
            /\ \A k \in 1..Len(triggers) :
                   \A t \in 1..Len(nodes[k].toks) :
                       \A key \in DOMAIN buildArgs :
                           HasPrefix(triggers[k].toks[t], <<"$">> \o key) =>
                               HasPrefix(nodes[k].toks[t], <<"$">> \o key)

\* the trigger COPY $V/included.txt was handled by copiedFiles before the
\* lines ARG V=files, FROM parent, COPY $V/included.txt of the Dockerfile,
\* in which the build argument V was substituted
C13_Witness ==
    /\ pc = "copiedFiles"
    /\ idx = 2
    /\ Len(nodes) = 4
    /\ nodes[1] = Copy(<<<<"$", "V", "/", "i", "n", "c", "l", "u", "d", "e", "d", ".", "t", "x", "t">>, <<"/", "t">>>>)
    /\ <<"V">> \in DOMAIN buildArgs
    /\ nodes[2] = Arg(<<"V", "=", "f", "i", "l", "e", "s">>)
    /\ nodes[4].toks[1] = buildArgs[<<"V">>] \o <<"/", "i", "n", "c", "l", "u", "d", "e", "d", ".", "t", "x", "t">>

\* the entry x of the file system is below the directory a
Under(a, x) == HasPrefix(x, a \o <<"/">>)

\* the path of an entry of the file system relative to the workspace
RelToWorkspace(x) == Drop(x, Len(WsRoot) + 1)

\* a directory strictly below root, above the entry x, matches the ignore set
PrunedBelow(root, x) ==
    \E a \in FSDirs : Under(root, a) /\ Under(a, x) /\ Matches(excludes, RelToWorkspace(a))

\* the files below the dependency d that match no pattern of the ignore set
\* and are below no pruned directory, by their paths relative to the
\* workspace
ExpectedBelow(d) ==
    LET root == Abs(Join(workspace, Clean(d)))
    IN  { RelToWorkspace(x) :
              x \in { y \in RegularFiles :
                         /\ Under(root, y)
                         /\ ~Matches(excludes, RelToWorkspace(y))
                         /\ ~PrunedBelow(root, y) } }

\* the dependencies that are directories, and those that are regular files
DirectoryDeps == { d \in expandedPaths : IsDirectory(Join(workspace, Clean(d))) }
RegularDeps == { d \in expandedPaths : IsRegular(Join(workspace, Clean(d))) }

\* C14: what WalkWorkspace returns for a directory dependency is exactly
\* the files below it that do not match the ignore set and are below no
\* matching directory under the dependency; with the regular files that
\* are dependencies themselves that is all of the result, and no key of
\* the result is a directory.
C14_WalkPrunesSubtrees ==
    pc = "return" =>
        /\ files = UNION { ExpectedBelow(d) : d \in DirectoryDeps } \cup
                   { Clean(d) : d \in { e \in RegularDeps : ~Matches(excludes, Clean(e)) } }
        /\ \A f \in files : ~IsDirectory(Join(workspace, f))

\* a directory was walked, a file below it was added, and another file, which
\* does not match the ignore set itself, was left out with its directory
C14_Witness ==
    /\ pc = "return"
    /\ \E d \in DirectoryDeps :
           LET root == Abs(Join(workspace, Clean(d)))
           IN  /\ ExpectedBelow(d) # {}
               /\ \E x \in RegularFiles :
                      /\ Under(root, x)
                      /\ ~Matches(excludes, RelToWorkspace(x))
                      /\ PrunedBelow(root, x)
                      /\ RelToWorkspace(x) \notin files

\* the tokens of a COPY/ADD chain that may be sources: those before the
\* last token and before the first token that begins with "#"
SourceLimit(toks) ==
    LET stops == { k \in 1..Len(toks) : k = Len(toks) \/ HasPrefix(toks[k], <<"#">>) }
    IN  (CHOOSE k \in stops : \A j \in stops : k <= j) - 1

\* C15: the step of copiedFiles for a COPY or ADD node without a --from=
\* flag returns as sources only words of tokens before the last token and
\* before the first token that begins with "#", wherever in the chain that
\* token is.
C15_CommentEndsScan ==
    [][ (AtCopyNode /\ ~HasFromFlag(nodes[idx]) /\ pc' = "copiedFiles") =>
            LET toks    == nodes[idx].toks
                allowed == { ProcessWord(toks[k], envs).value : k \in 1..SourceLimit(toks) }
            IN  \/ copied' = copied
                \/ /\ Len(copied') = Len(copied) + 1
                   /\ Range(copied'[Len(copied')]) \subseteq allowed ]_vars
====
